---------------------------- MODULE Spec2Model ----------------------------
(***************************************************************************)
(* Model of nanowire_model/physics.py: the Physics class, which holds a    *)
(* parameter dict (self.param) and assembles the tight-binding Hamiltonian *)
(* tensor (self.H) in create_Hamiltonian from the blocks built by          *)
(* create_alpha and create_beta.                                           *)
(*                                                                         *)
(* numpy arrays are objects: the model keeps a heap of arrays and the      *)
(* references self.H and H (the local of create_Hamiltonian) into it.      *)
(* create_Hamiltonian is modelled statement by statement (pc is the line   *)
(* about to run), so that the intermediate tensors of the placement loop   *)
(* are states of the model.  Python exceptions are modelled by their class *)
(* name.                                                                   *)
(***************************************************************************)
EXTENDS Integers, FiniteSets, Sequences, TLC

\* Bounds of the model: the largest N_D, N_int and t0 a parameter dict holds.
MaxN_D == 3
MaxN_int == 3
MaxT0 == 1

\* The side of the array literals [[2*t0,0],[0,2*t0]] and [[-t0,0],[0,-t0]].
AlphaDim == 2

Keys == {"t0", "N_D", "N_int"}

\* The values a key of the dict may hold in the model (integers only).
Vals(k) ==
    IF k = "t0" THEN (0 - 1)..MaxT0
    ELSE IF k = "N_D" THEN (0 - 1)..MaxN_D
    ELSE (0 - 1)..MaxN_int

AllVals == (0 - 1)..(MaxN_D + MaxN_int + MaxT0)

\* Every dict over (a subset of) the three keys this class reads.
ParamMaps ==
    { p \in UNION { [D -> AllVals] : D \in SUBSET Keys } :
        \A k \in DOMAIN p : p[k] \in Vals(k) }

\* Mutant of Lookup: self.param.get(k, 0), a default instead of the KeyError.
Lookup_Default(p, k) ==
    IF k \in DOMAIN p
    THEN [ok |-> TRUE, val |-> p[k], exc |-> "none"]
    ELSE [ok |-> TRUE, val |-> 0, exc |-> "none"]

\* self.param[k]: the value, or KeyError when the key is absent.
Lookup(p, k) ==
    IF k \in DOMAIN p
    THEN [ok |-> TRUE, val |-> p[k], exc |-> "none"]
    ELSE [ok |-> FALSE, val |-> 0, exc |-> "KeyError"]

\* An n x n array with d on the diagonal and 0 elsewhere.
Diag(n, d) ==
    [a \in 0..(n - 1) |-> [b \in 0..(n - 1) |-> IF a = b THEN d ELSE 0]]

NoBlock == Diag(0, 0)

Dim(m) == Cardinality(DOMAIN m)

\* Mutant of AlphaLiteral: the factor 2 forgotten.
AlphaLiteral_NoFactor(t0) == Diag(AlphaDim, t0)

\* np.array([[2*t0,0],[0,2*t0]])
AlphaLiteral(t0) == Diag(AlphaDim, 2 * t0)

\* Mutant of BetaLiteral: the sign forgotten.
BetaLiteral_PlusSign(t0) == Diag(AlphaDim, t0)

\* np.array([[-t0,0],[0,-t0]])
BetaLiteral(t0) == Diag(AlphaDim, 0 - t0)

\* Physics.create_alpha
create_alpha(p) ==
    LET r == Lookup(p, "t0")
    IN  IF r.ok
        THEN [ok |-> TRUE, val |-> AlphaLiteral(r.val), exc |-> "none"]
        ELSE [ok |-> FALSE, val |-> NoBlock, exc |-> r.exc]

\* Physics.create_beta
create_beta(p) ==
    LET r == Lookup(p, "t0")
    IN  IF r.ok
        THEN [ok |-> TRUE, val |-> BetaLiteral(r.val), exc |-> "none"]
        ELSE [ok |-> FALSE, val |-> NoBlock, exc |-> r.exc]

\* A tensor of shape (nd, nd, ni, ni): its shape and its entries v[r][c][a][b].
ZeroTensor(nd, ni) ==
    [shape |-> <<nd, nd, ni, ni>>,
     v |-> [r \in 0..(nd - 1) |-> [c \in 0..(nd - 1) |-> Diag(ni, 0)]]]

NoTensor == ZeroTensor(0, 0)

\* np.zeros((N_D,N_D,N_int,N_int)): a negative dimension is a ValueError, a
\* zero dimension gives an empty array.
np_zeros(nd, ni) ==
    IF nd < 0 \/ ni < 0
    THEN [ok |-> FALSE, val |-> NoTensor, exc |-> "ValueError"]
    ELSE [ok |-> TRUE, val |-> ZeroTensor(nd, ni), exc |-> "none"]

\* numpy broadcasting of an m x m value into an n x n slot: the sides agree, or
\* the value's side is 1.
Broadcastable(m, n) == m = n \/ m = 1

Broadcast(blk, n) ==
    IF Dim(blk) = n THEN blk
    ELSE [a \in 0..(n - 1) |-> [b \in 0..(n - 1) |-> blk[0][0]]]

\* numpy's index normalisation on an axis of length n: a negative index counts
\* from the end.
Wrap(k, n) == IF k < 0 THEN k + n ELSE k

\* T[r, c] = blk: IndexError when an index is outside [-n, n), ValueError when
\* blk does not broadcast into the N_int x N_int slot; the block is copied.
SetBlock(T, r, c, blk) ==
    LET n == T.shape[1]
        ni == T.shape[3]
    IN  IF r < 0 - n \/ r >= n \/ c < 0 - n \/ c >= n
        THEN [ok |-> FALSE, val |-> T, exc |-> "IndexError"]
        ELSE IF ~Broadcastable(Dim(blk), ni)
        THEN [ok |-> FALSE, val |-> T, exc |-> "ValueError"]
        ELSE [ok |-> TRUE,
              val |-> [T EXCEPT !.v[Wrap(r, n)][Wrap(c, n)] = Broadcast(blk, ni)],
              exc |-> "none"]

\* The index expressions of the three assignments of the loop body.
AlphaIndex(s) == <<s, s>>

\* Mutant of UpperIndex: the two indices transposed, H[i,i-1].
UpperIndex_Transposed(s) == <<s, s - 1>>

UpperIndex(s) == <<s - 1, s>>
LowerIndex(s) == <<s + 1, s>>

\* The conditions of the two if statements of the loop body.

\* Mutant of UpperGuard: i >= 0, true of the first site too.
UpperGuard_Always(s) == s >= 0

UpperGuard(s) == s > 0

\* Mutant of LowerGuard: i < N_D, true of the last site too.
LowerGuard_OffByOne(s, nd) == s < nd

LowerGuard(s, nd) == s < (nd - 1)

VARIABLES
    param,    \* self.param: the dict handed to __init__
    heap,     \* the live numpy tensors, by reference
    self_H,   \* self.H: a reference, NoRef while the attribute is not set
    pc,       \* "idle", or the line of create_Hamiltonian about to run
    N_D,      \* locals of create_Hamiltonian
    N_int,
    H,
    alpha,
    beta,
    i,
    pending,  \* SpecAnyOrder only: the placements not yet made
    exc,      \* outcome of the latest call under the current dict: "ok", an
              \* exception class, "running", or "none" (no call since a change)
    allocd,   \* whether that call's np.zeros returned
    writes    \* the blocks that call assigned: site, and the indices as written

vars == <<param, heap, self_H, pc, N_D, N_int, H, alpha, beta, i, pending,
          exc, allocd, writes>>

NoRef == 0
Refs == {1, 2}

\* A reference no live array has.
FreshRef(h) == CHOOSE r \in Refs : r \notin DOMAIN h

\* The heap without the arrays nothing refers to any more.
Gc(h, live) == [r \in (DOMAIN h) \cap live |-> h[r]]

\* Physics.__init__: self.param = param; self.H is not set.
Init ==
    /\ param \in ParamMaps
    /\ heap = Gc(<<>>, {})
    /\ self_H = NoRef
    /\ pc = "idle"
    /\ N_D = 0
    /\ N_int = 0
    /\ H = NoRef
    /\ alpha = NoBlock
    /\ beta = NoBlock
    /\ i = 0
    /\ pending = {}
    /\ exc = "none"
    /\ allocd = FALSE
    /\ writes = {}

\* An exception leaves create_Hamiltonian: its locals die, self.H is as it was.
Raise(e) ==
    /\ pc' = "idle"
    /\ exc' = e
    /\ heap' = Gc(heap, {self_H})
    /\ N_D' = 0
    /\ N_int' = 0
    /\ H' = NoRef
    /\ alpha' = NoBlock
    /\ beta' = NoBlock
    /\ i' = 0
    /\ pending' = {}
    /\ UNCHANGED <<param, self_H>>

\* line 48: N_D = self.param['N_D'] (the call starts here)
ReadN_D ==
    /\ pc = "idle"
    /\ allocd' = FALSE
    /\ writes' = {}
    /\ LET r == Lookup(param, "N_D")
       IN  IF r.ok
           THEN /\ N_D' = r.val
                /\ pc' = "l49"
                /\ exc' = "running"
                /\ UNCHANGED <<param, heap, self_H, N_int, H, alpha, beta, i, pending>>
           ELSE Raise(r.exc)

\* line 49: N_int = self.param['N_int']
ReadN_int ==
    /\ pc = "l49"
    /\ LET r == Lookup(param, "N_int")
       IN  IF r.ok
           THEN /\ N_int' = r.val
                /\ pc' = "l52"
                /\ UNCHANGED <<param, heap, self_H, N_D, H, alpha, beta, i, pending, exc>>
           ELSE Raise(r.exc)
    /\ UNCHANGED <<allocd, writes>>

\* Mutant of AllocH: self.H = H = np.zeros(...), the tensor published before
\* it is filled.
AllocH_StoreEarly ==
    /\ pc = "l52"
    /\ LET r == np_zeros(N_D, N_int)
       IN  IF r.ok
           THEN /\ H' = FreshRef(heap)
                /\ self_H' = FreshRef(heap)
                /\ heap' = [x \in {FreshRef(heap)} |-> r.val]
                /\ allocd' = TRUE
                /\ pc' = "l53"
                /\ UNCHANGED <<param, N_D, N_int, alpha, beta, i, pending, exc>>
           ELSE Raise(r.exc) /\ UNCHANGED allocd
    /\ UNCHANGED writes

\* Mutant of AllocH: the stored tensor is reused as the buffer when it has the
\* requested shape (a cache), instead of a new array.
AllocH_Cached ==
    /\ pc = "l52"
    /\ LET r == np_zeros(N_D, N_int)
       IN  IF r.ok
           THEN /\ IF self_H # NoRef /\ heap[self_H].shape = r.val.shape
                   THEN H' = self_H /\ heap' = heap
                   ELSE /\ H' = FreshRef(heap)
                        /\ heap' = [x \in (DOMAIN heap) \cup {FreshRef(heap)} |->
                                      IF x = FreshRef(heap) THEN r.val ELSE heap[x]]
                /\ allocd' = TRUE
                /\ pc' = "l53"
                /\ UNCHANGED <<param, self_H, N_D, N_int, alpha, beta, i, pending, exc>>
           ELSE Raise(r.exc) /\ UNCHANGED allocd
    /\ UNCHANGED writes

\* line 52: H = np.zeros((N_D,N_D,N_int,N_int))
AllocH ==
    /\ pc = "l52"
    /\ LET r == np_zeros(N_D, N_int)
       IN  IF r.ok
           THEN /\ H' = FreshRef(heap)
                /\ heap' = [x \in (DOMAIN heap) \cup {FreshRef(heap)} |->
                              IF x = FreshRef(heap) THEN r.val ELSE heap[x]]
                /\ allocd' = TRUE
                /\ pc' = "l53"
                /\ UNCHANGED <<param, self_H, N_D, N_int, alpha, beta, i, pending, exc>>
           ELSE Raise(r.exc) /\ UNCHANGED allocd
    /\ UNCHANGED writes

\* line 53: alpha = self.create_alpha()
CallAlpha ==
    /\ pc = "l53"
    /\ LET r == create_alpha(param)
       IN  IF r.ok
           THEN /\ alpha' = r.val
                /\ pc' = "l54"
                /\ UNCHANGED <<param, heap, self_H, N_D, N_int, H, beta, i, pending, exc>>
           ELSE Raise(r.exc)
    /\ UNCHANGED <<allocd, writes>>

\* line 54: beta = self.create_beta()
CallBeta ==
    /\ pc = "l54"
    /\ LET r == create_beta(param)
       IN  IF r.ok
           THEN /\ beta' = r.val
                /\ i' = 0
                /\ pc' = "l57"
                /\ UNCHANGED <<param, heap, self_H, N_D, N_int, H, alpha, pending, exc>>
           ELSE Raise(r.exc)
    /\ UNCHANGED <<allocd, writes>>

\* line 57: for i in range(N_D): the next site, or the end of the loop.
\* (i holds the next value of range(N_D).)
LoopHead ==
    /\ pc = "l57"
    /\ pc' = IF i < N_D THEN "l58" ELSE "l66"
    /\ UNCHANGED <<param, heap, self_H, N_D, N_int, H, alpha, beta, i, pending,
                   exc, allocd, writes>>

\* One assignment T[ix] = blk of site s, made on the tensor H refers to, then
\* control goes to line `next` with loop index `nexti`.
Place(s, ix, blk, next, nexti, pend) ==
    LET r == SetBlock(heap[H], ix[1], ix[2], blk)
    IN  IF r.ok
        THEN /\ heap' = [heap EXCEPT ![H] = r.val]
             /\ writes' = writes \cup {[site |-> s, row |-> ix[1], col |-> ix[2]]}
             /\ pc' = next
             /\ i' = nexti
             /\ pending' = pend
             /\ UNCHANGED <<param, self_H, N_D, N_int, H, alpha, beta, exc>>
        ELSE Raise(r.exc) /\ UNCHANGED writes

\* An if statement whose condition is false: nothing is assigned.
Skip(next, nexti) ==
    /\ pc' = next
    /\ i' = nexti
    /\ UNCHANGED <<param, heap, self_H, N_D, N_int, H, alpha, beta, pending, exc, writes>>

\* line 58: H[i,i] = alpha
PlaceAlpha ==
    /\ pc = "l58"
    /\ Place(i, AlphaIndex(i), alpha, "l60", i, pending)
    /\ UNCHANGED allocd

\* lines 60-61: if i > 0: H[i-1,i] = beta
PlaceUpper ==
    /\ pc = "l60"
    /\ IF UpperGuard(i)
       THEN Place(i, UpperIndex(i), beta, "l63", i, pending)
       ELSE Skip("l63", i)
    /\ UNCHANGED allocd

\* lines 63-64: if i < (N_D-1): H[i+1,i] = beta; then the next iteration.
PlaceLower ==
    /\ pc = "l63"
    /\ IF LowerGuard(i, N_D)
       THEN Place(i, LowerIndex(i), beta, "l57", i + 1, pending)
       ELSE Skip("l57", i + 1)
    /\ UNCHANGED allocd

\* line 66: self.H = H, and the method returns.
StoreH ==
    /\ pc = "l66"
    /\ self_H' = H
    /\ heap' = Gc(heap, {H})
    /\ exc' = "ok"
    /\ pc' = "idle"
    /\ N_D' = 0
    /\ N_int' = 0
    /\ H' = NoRef
    /\ alpha' = NoBlock
    /\ beta' = NoBlock
    /\ i' = 0
    /\ UNCHANGED <<param, pending, allocd, writes>>

\* The caller changes the dict it handed to __init__ (self.param is that
\* dict): param[k] = v, between calls.
SetParam ==
    /\ pc = "idle"
    /\ \E k \in Keys : \E v \in Vals(k) :
          /\ (k \in DOMAIN param => param[k] # v)
          /\ param' = [x \in (DOMAIN param) \cup {k} |->
                         IF x = k THEN v ELSE param[x]]
    /\ exc' = "none"
    /\ allocd' = FALSE
    /\ writes' = {}
    /\ UNCHANGED <<heap, self_H, pc, N_D, N_int, H, alpha, beta, i, pending>>

\* del param[k], between calls.
DelParam ==
    /\ pc = "idle"
    /\ \E k \in DOMAIN param :
          param' = [x \in (DOMAIN param) \ {k} |-> param[x]]
    /\ exc' = "none"
    /\ allocd' = FALSE
    /\ writes' = {}
    /\ UNCHANGED <<heap, self_H, pc, N_D, N_int, H, alpha, beta, i, pending>>

Next ==
    \/ ReadN_D
    \/ ReadN_int
    \/ AllocH
    \/ CallAlpha
    \/ CallBeta
    \/ LoopHead
    \/ PlaceAlpha
    \/ PlaceUpper
    \/ PlaceLower
    \/ StoreH
    \/ SetParam
    \/ DelParam

Spec == Init /\ [][Next]_vars


(***************************************************************************)
(* The placement loop with its assignments made in any order: every        *)
(* assignment the loop body makes for a site of range(N_D) is pending once *)
(* alpha and beta are computed, and the pending ones are made one at a     *)
(* time, in any order (per-site writers, interleaved).                     *)
(***************************************************************************)

\* The assignments the loop makes: for each site the on-site block, and the
\* two neighbour blocks where the body's if statements let them through.
SiteWrites(nd) ==
    {[site |-> s, slot |-> "alpha"] : s \in 0..(nd - 1)}
    \cup {[site |-> s, slot |-> "upper"] : s \in {x \in 0..(nd - 1) : UpperGuard(x)}}
    \cup {[site |-> s, slot |-> "lower"] : s \in {x \in 0..(nd - 1) : LowerGuard(x, nd)}}

SlotIndex(w) ==
    IF w.slot = "alpha" THEN AlphaIndex(w.site)
    ELSE IF w.slot = "upper" THEN UpperIndex(w.site)
    ELSE LowerIndex(w.site)

ForkSites ==
    /\ pc = "l57"
    /\ pending' = SiteWrites(N_D)
    /\ pc' = "par"
    /\ UNCHANGED <<param, heap, self_H, N_D, N_int, H, alpha, beta, i,
                   exc, allocd, writes>>

PlaceAny ==
    /\ pc = "par"
    /\ \E w \in pending :
          Place(w.site, SlotIndex(w), IF w.slot = "alpha" THEN alpha ELSE beta,
                "par", i, pending \ {w})
    /\ UNCHANGED allocd

JoinSites ==
    /\ pc = "par"
    /\ pending = {}
    /\ pc' = "l66"
    /\ UNCHANGED <<param, heap, self_H, N_D, N_int, H, alpha, beta, i, pending,
                   exc, allocd, writes>>

NextAnyOrder ==
    \/ ReadN_D
    \/ ReadN_int
    \/ AllocH
    \/ CallAlpha
    \/ CallBeta
    \/ ForkSites
    \/ PlaceAny
    \/ JoinSites
    \/ StoreH

SpecAnyOrder == Init /\ [][NextAnyOrder]_vars

\* The loop of lines 57-64 run in ascending order from site s on tensor T.
RECURSIVE AscendingLoop(_, _, _, _, _)
AscendingLoop(T, s, nd, a, b) ==
    IF s >= nd THEN T
    ELSE LET T1 == SetBlock(T, AlphaIndex(s)[1], AlphaIndex(s)[2], a).val
             T2 == IF UpperGuard(s)
                   THEN SetBlock(T1, UpperIndex(s)[1], UpperIndex(s)[2], b).val
                   ELSE T1
             T3 == IF LowerGuard(s, nd)
                   THEN SetBlock(T2, LowerIndex(s)[1], LowerIndex(s)[2], b).val
                   ELSE T2
         IN  AscendingLoop(T3, s + 1, nd, a, b)


(***************************************************************************)
(* The claims.                                                             *)
(***************************************************************************)

\* A call of create_Hamiltonian has ended and the dict is as that call read it.
Ended == pc = "idle" /\ exc \notin {"none", "running"}

\* All three keys are in the dict.
Present == Keys \subseteq DOMAIN param

\* N_D of the call that made the recorded writes.
CallN_D == IF pc = "idle" THEN param["N_D"] ELSE N_D

\* A block is the n x n diagonal matrix with d on the diagonal, stated entry
\* by entry.
IsDiagBlock(blk, n, d) ==
    /\ DOMAIN blk = 0..(n - 1)
    /\ \A a \in 0..(n - 1) :
          /\ DOMAIN blk[a] = 0..(n - 1)
          /\ \A b \in 0..(n - 1) : blk[a][b] = IF a = b THEN d ELSE 0

\* A block is all zero.
IsZeroBlock(blk) == \A a \in DOMAIN blk : \A b \in DOMAIN blk[a] : blk[a][b] = 0

\* The block-tridiagonal tensor of section 3 of the specification.
ExpectedTensor(nd, ni, t0) ==
    [shape |-> <<nd, nd, ni, ni>>,
     v |-> [r \in 0..(nd - 1) |-> [c \in 0..(nd - 1) |->
              [a \in 0..(ni - 1) |-> [b \in 0..(ni - 1) |->
                 IF a # b THEN 0
                 ELSE IF r = c THEN 2 * t0
                 ELSE IF r - c = 1 \/ c - r = 1 THEN 0 - t0
                 ELSE 0]]]]]

\* C1: after a successful assembly every on-diagonal block H[i,i], i in
\* [0, N_D), is the N_int x N_int diagonal matrix with 2*t0 on the diagonal
\* and 0 elsewhere.
C1_OnSiteBlocks ==
    (pc = "idle" /\ exc = "ok") =>
        \A s \in 0..(param["N_D"] - 1) :
            IsDiagBlock(heap[self_H].v[s][s], param["N_int"], 2 * param["t0"])

C1_Witness ==
    /\ pc = "idle"
    /\ exc = "ok"
    /\ param["N_D"] >= 2
    /\ param["t0"] # 0
    /\ heap[self_H].v[1][1][0][0] = 2 * param["t0"]

\* C2: after a successful assembly every super-diagonal block H[i-1,i], i in
\* [1, N_D), and every sub-diagonal block H[i+1,i], i in [0, N_D-1), is the
\* diagonal matrix with -t0 on the diagonal and 0 elsewhere.
C2_CouplingBlocks ==
    (pc = "idle" /\ exc = "ok") =>
        /\ \A s \in 1..(param["N_D"] - 1) :
              IsDiagBlock(heap[self_H].v[s - 1][s], param["N_int"], 0 - param["t0"])
        /\ \A s \in 0..(param["N_D"] - 2) :
              IsDiagBlock(heap[self_H].v[s + 1][s], param["N_int"], 0 - param["t0"])

C2_Witness ==
    /\ pc = "idle"
    /\ exc = "ok"
    /\ param["N_D"] >= 3
    /\ param["t0"] # 0
    /\ heap[self_H].v[1][2][1][1] = 0 - param["t0"]
    /\ heap[self_H].v[1][0][1][1] = 0 - param["t0"]

\* C3: in every tensor, the assembled one and every intermediate one of the
\* placement loop, each block H[row,col] with |row - col| > 1 is all zero.
C3_BlockTridiagonal ==
    \A x \in DOMAIN heap :
        \A r \in DOMAIN heap[x].v : \A c \in DOMAIN heap[x].v[r] :
            (r - c > 1 \/ c - r > 1) => IsZeroBlock(heap[x].v[r][c])

C3_Witness ==
    /\ pc = "l63"
    /\ i = 1
    /\ N_D >= 3
    /\ alpha[0][0] # 0
    /\ heap[H].v[0][1][0][0] # 0
    /\ IsZeroBlock(heap[H].v[2][0])

\* C4: every block index written during assembly lies in [0, N_D) on both
\* axes, no assignment fails with an IndexError, and for N_D = 1 the on-site
\* block H[0,0] is the only block written and the only block of the result.
C4_BoundarySafety ==
    /\ \A w \in writes :
          w.row \in 0..(CallN_D - 1) /\ w.col \in 0..(CallN_D - 1)
    /\ exc # "IndexError"
    /\ (pc = "idle" /\ exc = "ok" /\ param["N_D"] = 1) =>
          /\ writes = {[site |-> 0, row |-> 0, col |-> 0]}
          /\ DOMAIN heap[self_H].v = {0}
          /\ DOMAIN heap[self_H].v[0] = {0}

C4_Witness ==
    /\ pc = "idle"
    /\ exc = "ok"
    /\ param["N_D"] = 1
    /\ param["t0"] # 0
    /\ heap[self_H].v[0][0][0][0] # 0

\* C5: for all (t0, N_D, N_int) with N_D >= 1 and N_int >= 1, not only
\* N_int = 2, assembly succeeds and the tensor has shape
\* (N_D, N_D, N_int, N_int).
C5_AnyN_intAssembles ==
    (Ended /\ Present /\ param["N_D"] >= 1 /\ param["N_int"] >= 1) =>
        /\ exc = "ok"
        /\ heap[self_H].shape =
              <<param["N_D"], param["N_D"], param["N_int"], param["N_int"]>>

C6_AllocFailsFirst ==
    /\ DOMAIN param = {"N_D", "N_int"}
    /\ (param["N_D"] < 0 \/ param["N_int"] < 0)

C7_BadDimensionFails ==
    (Ended /\ Present /\ (param["N_D"] < 1 \/ param["N_int"] < 1)) =>
        exc # "ok"

C8_FailsBeforeAlloc ==
    \/ "N_D" \notin DOMAIN param
    \/ "N_int" \notin DOMAIN param
    \/ param["N_D"] < 0
    \/ param["N_int"] < 0

Cell(w, nd) == <<Wrap(w.row, nd), Wrap(w.col, nd)>>

\* C9: with the placements made in any order, the assignments of site i go to
\* [i,i], [i-1,i] and [i+1,i] only, no two assignments go to the same cell,
\* and the tensor after the last one is the tensor of the ascending loop.
C9_OrderIndependent ==
    /\ \A w \in writes :
          <<w.row, w.col>> \in
              {<<w.site, w.site>>, <<w.site - 1, w.site>>, <<w.site + 1, w.site>>}
    /\ \A w1 \in writes : \A w2 \in writes :
          w1 # w2 => Cell(w1, CallN_D) # Cell(w2, CallN_D)
    /\ pc = "l66" =>
          heap[H] = AscendingLoop(ZeroTensor(N_D, N_int), 0, N_D, alpha, beta)

C9_Witness ==
    /\ pc = "par"
    /\ N_D >= 3
    /\ alpha[0][0] # 0
    /\ [site |-> 0, slot |-> "alpha"] \in pending
    /\ [site |-> 1, slot |-> "upper"] \in pending
    /\ [site |-> 2, row |-> 2, col |-> 2] \in writes
    /\ [site |-> 1, row |-> 2, col |-> 1] \in writes

\* C10: a call changes neither the dict nor the tensor an earlier call stored;
\* its tensor is a new zero-filled array of the current dimensions, and what
\* it stores is the tensor of the current parameters; a change of the dict
\* leaves self.H and every array as they are.
C10_FreshTensorPerCall ==
    [][/\ exc' # "none" => param' = param
       /\ (self_H # NoRef /\ self_H \in DOMAIN heap') => heap'[self_H] = heap[self_H]
       /\ (self_H # NoRef /\ self_H' = self_H) => self_H \in DOMAIN heap'
       /\ (H = NoRef /\ H' # NoRef) =>
             /\ H' \notin DOMAIN heap
             /\ heap'[H'] = ZeroTensor(param["N_D"], param["N_int"])
       /\ exc' = "ok" =>
             heap'[self_H'] = ExpectedTensor(param["N_D"], param["N_int"], param["t0"])
       /\ exc' = "none" => (self_H' = self_H /\ heap' = heap)]_vars

C10_Witness ==
    /\ pc = "l57"
    /\ i = 2
    /\ self_H # NoRef
    /\ heap[self_H].shape = heap[H].shape
    /\ heap[self_H].v[0][0][0][0] # heap[H].v[0][0][0][0]

=============================================================================
